---- MODULE Spec2Model ----
(***************************************************************************)
(* Faucet claim coordinator of the TextRP chat bot: the SQLite claim       *)
(* ledger (faucet_db.py, class FaucetDB) and the faucet / blacklist /      *)
(* whitelist command handlers registered in main.py.                       *)
(*                                                                         *)
(* LedgerSpec drives the FaucetDB operations directly with inputs drawn    *)
(* from small sets; InfoSpec does the same with get_claim_info among       *)
(* them, in two steps that show _lock while it is held; FrameSpec runs     *)
(* every FaucetDB operation, each call observed by its name; RewardSpec    *)
(* is the reward computation alone.  Spec runs the command handlers as     *)
(* coroutines, a step for every await, so handlers that are in flight      *)
(* together interleave at their awaits.  The handlers take no lock of      *)
(* their own; FaucetDB._lock is held only inside a FaucetDB call.          *)
(* TextRPChatbot.sync_once awaits one handler at a time, which is          *)
(* SyncSpec; under Spec handlers overlap, as they do when something else   *)
(* dispatches them concurrently (the case FaucetDB._lock is there for).    *)
(* AdminSpec runs the admin commands one at a time, RetrySpec one          *)
(* XRPLClient.get_account_balance call against a failing node, and         *)
(* IssuerSpec the issuer settings of BotConfig as cmd_faucet uses them.    *)
(***************************************************************************)
EXTENDS Integers, Sequences, FiniteSets, TLC

(***************************************************************************)
(* Bounds of the model.                                                    *)
(***************************************************************************)
MaxTime == 2          \* the clock runs over 0..MaxTime (hours)
MaxCalls == 2         \* FaucetDB calls made by the caller of LedgerSpec
MaxAttempts == 2      \* command handler invocations of Spec
MaxBase == 12         \* base amounts 1..MaxBase of RewardSpec
MaxNfts == 4          \* matching NFT counts 0..MaxNfts of RewardSpec
MaxFailures == 3      \* connection errors the node of RetrySpec raises at most

(***************************************************************************)
(* Configuration (BotConfig, FaucetDB.__init__).                           *)
(***************************************************************************)
cooldown_hours == 2
faucet_daily_amount == 100
faucet_min_xrp_balance == 1

Tasks == {1, 2}
ValidAddresses == {"rW1", "rW2"}
Addresses == ValidAddresses \cup {"bogus"}
AdminUsers == {"@admin"}
Senders == {"@rW1", "@rW2", "@bogus", "@admin", "nobody"}
NftCounts == {0, 1}
None == [none |-> TRUE]
TxHash(n) == <<n>>
NoTx == <<>>

(***************************************************************************)
(* Numbers.  Amounts and totals are held as <<hi, lo>> = hi * Base + lo so *)
(* that values around 2^53, where a Python float stops being exact, are    *)
(* representable.                                                          *)
(***************************************************************************)
Base == 2 ^ 27
Num(n) == <<n \div Base, n % Base>>
BigAdd(a, b) == <<a[1] + b[1] + ((a[2] + b[2]) \div Base), (a[2] + b[2]) % Base>>

\* Spacing of binary64 values at magnitude <<hi, _>> (53-bit significand).
Ulp(hi) ==
    IF hi < 2 ^ 26 THEN 1
    ELSE IF hi < 2 ^ 27 THEN 2
    ELSE IF hi < 2 ^ 28 THEN 4
    ELSE IF hi < 2 ^ 29 THEN 8
    ELSE 16

\* float(): the binary64 nearest to the integer a, ties to even.
Float64Round(a) ==
    LET q == Ulp(a[1])
        r == a[2] % q
        down == a[2] - r
        lo == IF 2 * r < q THEN down
              ELSE IF 2 * r > q THEN down + q
              ELSE IF (down \div q) % 2 = 0 THEN down ELSE down + q
    IN  IF lo = Base THEN <<a[1] + 1, 0>> ELSE <<a[1], lo>>

\* Texts of numbers: str(int) is "50", str(float) is "75.0".
StrInt(a) == [num |-> a, form |-> "int"]
StrFloat(x) == [num |-> x, form |-> "float"]
ParseFloat(text) == Float64Round(text.num)
\* str(float(a) + float(b)) of faucet_db.py
FloatSumText(a, b) == StrFloat(Float64Round(BigAdd(ParseFloat(a), ParseFloat(b))))

VARIABLES
    now,        \* datetime.now(), in hours
    claims,     \* table claims: wallet -> row or None
    blacklist,  \* table blacklist: wallet -> row or None
    stats,      \* table faucet_stats, row id = 1
    lock,       \* FaucetDB._lock is held
    log,        \* logger output: set of [level, op, wallet, tx]
    co,         \* cmd_faucet coroutine of each task: the await it is at and its locals
    outcome,    \* what the handler run that returned last ended with
    payments,   \* payments the XRPL accepted: set of [wallet, at, tx, amount]
    nextTx,     \* next transaction hash
    attempts,   \* handler invocations (Spec) or FaucetDB calls (LedgerSpec) so far
    calls,      \* successful record_claim calls per wallet: [n, sum, tx]
    lastEval,   \* last check_claim_eligibility call: [wallet, fault, result]
    lastAdd,    \* last add_to_blacklist call that returned True: [wallet, reason, blacklisted_by]
    lastCall,   \* last remove_from_blacklist call or admin command: its arguments and result
    info,       \* get_claim_info coroutine: [pc, wallet, fault, result]
    reward,     \* a reward computation: [base_amount, nft_count, final_amount, done]
    fetch,      \* a get_account_balance call: the node's script, the requests made, the result
    issuers     \* BotConfig's issuer settings and the issuers a cmd_faucet run used

ledger == <<claims, blacklist, stats>>
local == <<co, outcome>>
\* State outside the faucet's.
outside == <<fetch, issuers>>
vars == <<now, claims, blacklist, stats, lock, log, co, outcome,
          payments, nextTx, attempts, calls, lastEval, lastAdd, lastCall, info, reward,
          outside>>

\* A coroutine that is not running.
Idle == [pc |-> "idle", user_wallet |-> "", xrp_balance |-> None,
         nft_count |-> 0, final_amount |-> 0, result |-> None]

(***************************************************************************)
(* FaucetDB._init_database: empty tables, the stats row (1, 0, '0', 0).    *)
(***************************************************************************)
InitStats == [total_claims |-> 0, total_distributed |-> StrInt(Num(0)),
              unique_wallets |-> 0, last_updated |-> -1]

\* get_claim_info is not running.
NoInfo == [pc |-> "idle", wallet |-> "", fault |-> FALSE, result |-> None]

InitBot ==
    /\ now = 0
    /\ claims = [w \in Addresses |-> None]
    /\ blacklist = [w \in Addresses |-> None]
    /\ stats = InitStats
    /\ lock = FALSE
    /\ log = {}
    /\ co = [t \in Tasks |-> Idle]
    /\ outcome = [kind |-> "None", reason |-> "", wallet |-> "", paid |-> NoTx,
                  recorded |-> FALSE]
    /\ payments = {}
    /\ nextTx = 1
    /\ attempts = 0
    /\ calls = [w \in Addresses |-> [n |-> 0, sum |-> Num(0), tx |-> NoTx]]
    /\ lastEval = None
    /\ lastAdd = None
    /\ lastCall = None
    /\ info = NoInfo

\* Nothing outside the faucet is running.
InitOutside == fetch = None /\ issuers = None

Init == InitBot /\ InitOutside /\ reward = None

(***************************************************************************)
(* FaucetDB (faucet_db.py).  Every operation runs "async with self._lock"  *)
(* around synchronous sqlite3 calls inside "with sqlite3.connect(..)",     *)
(* which commits on return and rolls back on an exception: an operation is *)
(* one step, and a storage fault leaves the tables as they were.           *)
(***************************************************************************)
Reply(ok, reason, hours) == [ok |-> ok, reason |-> reason, hours |-> hours]

AsyncWithExitLeakOnException(path) == path = "exception"
\* Whether _lock is held after "async with self._lock:" was left by a return or
\* by an exception: __aexit__ releases it either way.
AsyncWithExit(path) == FALSE

ExitPath(fault) == IF fault THEN "exception" ELSE "return"

InCooldownInclusive(time_since_claim) == time_since_claim <= cooldown_hours
\* time_since_claim < timedelta(hours=self.cooldown_hours)
InCooldown(time_since_claim) == time_since_claim < cooldown_hours

check_claim_eligibility_CooldownFirst(wallet, fault) ==
    IF fault THEN Reply(FALSE, "Database error occurred", 0)
    ELSE IF claims[wallet] # None /\ InCooldown(now - claims[wallet].last_claim)
    THEN Reply(FALSE, "Please wait", cooldown_hours - (now - claims[wallet].last_claim))
    ELSE IF blacklist[wallet] # None
    THEN Reply(FALSE, "Wallet is blacklisted from faucet", 0)
    ELSE Reply(TRUE, "", 0)
check_claim_eligibility_FailOpen(wallet, fault) ==
    IF fault THEN Reply(TRUE, "", 0)
    ELSE IF blacklist[wallet] # None
    THEN Reply(FALSE, "Wallet is blacklisted from faucet", 0)
    ELSE IF claims[wallet] # None /\ InCooldown(now - claims[wallet].last_claim)
    THEN Reply(FALSE, "Please wait", cooldown_hours - (now - claims[wallet].last_claim))
    ELSE Reply(TRUE, "", 0)
\* The (is_eligible, reason_if_not) tuple; hours is the hours_remaining of the
\* "Please wait {hours_remaining:.1f} hours before claiming again" reason.
check_claim_eligibility(wallet, fault) ==
    IF fault THEN Reply(FALSE, "Database error occurred", 0)
    ELSE IF blacklist[wallet] # None
    THEN Reply(FALSE, "Wallet is blacklisted from faucet", 0)
    ELSE IF claims[wallet] # None /\ InCooldown(now - claims[wallet].last_claim)
    THEN Reply(FALSE, "Please wait", cooldown_hours - (now - claims[wallet].last_claim))
    ELSE Reply(TRUE, "", 0)

ClaimRowAfterStoringBaseAmount(existing, amount, tx_hash) ==
    IF existing # None
    THEN [existing EXCEPT !.last_claim = now,
                          !.claim_count = existing.claim_count + 1,
                          !.total_claimed = FloatSumText(existing.total_claimed, amount),
                          !.last_tx_hash = tx_hash]
    ELSE [last_claim |-> now, claim_count |-> 1,
          total_claimed |-> StrInt(Num(faucet_daily_amount)),
          first_claim |-> now, last_tx_hash |-> tx_hash]
ClaimRowAfterDeletingExisting(existing, amount, tx_hash) ==
    IF existing # None
    THEN None
    ELSE [last_claim |-> now, claim_count |-> 1, total_claimed |-> amount,
          first_claim |-> now, last_tx_hash |-> tx_hash]
\* The claims row after record_claim's UPDATE or INSERT.
ClaimRowAfter(existing, amount, tx_hash) ==
    IF existing # None
    THEN [existing EXCEPT !.last_claim = now,
                          !.claim_count = existing.claim_count + 1,
                          !.total_claimed = FloatSumText(existing.total_claimed, amount),
                          !.last_tx_hash = tx_hash]
    ELSE [last_claim |-> now, claim_count |-> 1, total_claimed |-> amount,
          first_claim |-> now, last_tx_hash |-> tx_hash]

StatsRowAfterCountingEveryClaim(existing, amount) ==
    [total_claims |-> stats.total_claims + 1,
     total_distributed |-> FloatSumText(stats.total_distributed, amount),
     unique_wallets |-> stats.unique_wallets + 1,
     last_updated |-> now]
\* The faucet_stats row after record_claim's one or two UPDATEs.
StatsRowAfter(existing, amount) ==
    [total_claims |-> stats.total_claims + 1,
     total_distributed |-> FloatSumText(stats.total_distributed, amount),
     unique_wallets |-> IF existing = None THEN stats.unique_wallets + 1
                        ELSE stats.unique_wallets,
     last_updated |-> now]

LogEntry(level, op, wallet, tx) == [level |-> level, op |-> op, wallet |-> wallet, tx |-> tx]

\* The statements of record_claim's transaction at which sqlite3 can raise.
FaultSteps == {"select", "unique_wallets", "stats", "commit"}

\* <<claims, stats>> as written inside the transaction when `step` raises: the
\* row is written before the unique_wallets UPDATE, that before the UPDATE of
\* total_claims and total_distributed, and that before conn.commit().
WritesBefore(step, wallet, amount, tx_hash) ==
    LET row == [claims EXCEPT ![wallet] = ClaimRowAfter(claims[wallet], amount, tx_hash)]
        unique == [stats EXCEPT !.unique_wallets =
                        IF claims[wallet] = None THEN @ + 1 ELSE @]
    IN  CASE step = "select" -> <<claims, stats>>
          [] step = "unique_wallets" -> <<row, stats>>
          [] step = "stats" -> <<row, unique>>
          [] OTHER -> <<row, StatsRowAfter(claims[wallet], amount)>>

TransactionEndKeepingWrites(before, written, failed) == written
\* "with sqlite3.connect(..) as conn": commit on return, rollback on an exception.
TransactionEnd(before, written, failed) == IF failed THEN before ELSE written

\* record_claim returns (not fault).  calls observes the calls that returned True.
record_claim(wallet, amount, tx_hash, fault) ==
    /\ ~lock
    /\ IF fault
       THEN /\ \E step \in FaultSteps :
                 LET end == TransactionEnd(<<claims, stats>>,
                                           WritesBefore(step, wallet, amount, tx_hash), TRUE)
                 IN  claims' = end[1] /\ stats' = end[2]
            /\ log' = log \cup {LogEntry("error", "record_claim", wallet, NoTx)}
            /\ UNCHANGED calls
       ELSE /\ LET end == TransactionEnd(<<claims, stats>>,
                                         WritesBefore("done", wallet, amount, tx_hash), FALSE)
               IN  claims' = end[1] /\ stats' = end[2]
            /\ log' = log \cup {LogEntry("info", "record_claim", wallet, tx_hash)}
            /\ calls' = [calls EXCEPT ![wallet] = [n |-> @.n + 1,
                                                   sum |-> BigAdd(@.sum, amount.num),
                                                   tx |-> tx_hash]]
    /\ lock' = AsyncWithExit(ExitPath(fault))

BlacklistRowAfterKeepingExisting(existing, reason, blacklisted_by) ==
    IF existing # None THEN existing
    ELSE [reason |-> reason, blacklisted_at |-> now, blacklisted_by |-> blacklisted_by]
\* The blacklist row of the wallet after INSERT OR REPLACE (wallet is the
\* primary key, so the wallet has this one row).
BlacklistRowAfter(existing, reason, blacklisted_by) ==
    [reason |-> reason, blacklisted_at |-> now, blacklisted_by |-> blacklisted_by]

\* add_to_blacklist returns (not fault): INSERT OR REPLACE.
add_to_blacklist(wallet, reason, blacklisted_by, fault) ==
    /\ ~lock
    /\ IF fault
       THEN /\ log' = log \cup {LogEntry("error", "add_to_blacklist", wallet, NoTx)}
            /\ UNCHANGED blacklist
       ELSE /\ blacklist' = [blacklist EXCEPT ![wallet] =
                    BlacklistRowAfter(blacklist[wallet], reason, blacklisted_by)]
            /\ log' = log \cup {LogEntry("info", "add_to_blacklist", wallet, NoTx)}
    /\ lock' = AsyncWithExit(ExitPath(fault))

RemoveResultFalseWithoutRow(existing, fault) == ~fault /\ existing # None
\* What remove_from_blacklist returns: True once the DELETE and the commit went
\* through, whether or not a row was deleted.
RemoveResult(existing, fault) == ~fault

\* remove_from_blacklist: DELETE FROM blacklist WHERE wallet = ?.
remove_from_blacklist(wallet, fault) ==
    /\ ~lock
    /\ IF ~RemoveResult(blacklist[wallet], fault)
       THEN /\ log' = log \cup {LogEntry("error", "remove_from_blacklist", wallet, NoTx)}
            /\ UNCHANGED blacklist
       ELSE /\ blacklist' = [blacklist EXCEPT ![wallet] = None]
            /\ log' = log \cup {LogEntry("info", "remove_from_blacklist", wallet, NoTx)}
    /\ lock' = AsyncWithExit(ExitPath(fault))

\* The window of get_faucet_stats' recent claims, timedelta(hours=24), on the
\* model's clock as cooldown_hours is.
recent_hours == 2

RecentClaimsCountingEveryClaim == stats.total_claims
\* SELECT COUNT(*) FROM claims WHERE last_claim > yesterday
RecentClaims ==
    Cardinality({w \in DOMAIN claims :
                    claims[w] # None /\ claims[w].last_claim > now - recent_hours})

\* What get_faucet_stats returns: the stats row with claims_24h and
\* blacklisted_count, or {} (None here) when sqlite3 raises.  It writes nothing.
get_faucet_stats(fault) ==
    IF fault
    THEN None
    ELSE [total_claims |-> stats.total_claims,
          total_distributed |-> stats.total_distributed,
          unique_wallets |-> stats.unique_wallets,
          last_updated |-> stats.last_updated,
          claims_24h |-> RecentClaims,
          blacklisted_count |-> Cardinality({w \in DOMAIN blacklist : blacklist[w] # None})]

\* What get_blacklist returns: the blacklist rows (their order aside), or []
\* when sqlite3 raises.  It writes nothing.
get_blacklist(fault) ==
    IF fault THEN {}
    ELSE {[wallet |-> w, reason |-> blacklist[w].reason,
           blacklisted_by |-> blacklist[w].blacklisted_by] :
              w \in {x \in DOMAIN blacklist : blacklist[x] # None}}

\* What get_recent_claims returns: the claims rows (their order aside; the
\* default limit of 10 exceeds the wallets here), or [] when sqlite3 raises.
get_recent_claims(fault) ==
    IF fault THEN {}
    ELSE {[wallet |-> w, last_claim |-> claims[w].last_claim,
           claim_count |-> claims[w].claim_count,
           total_claimed |-> claims[w].total_claimed,
           last_tx_hash |-> claims[w].last_tx_hash] :
              w \in {x \in DOMAIN claims : claims[x] # None}}

(***************************************************************************)
(* LedgerSpec: a caller of FaucetDB making one call after another.         *)
(***************************************************************************)
BigOdd == <<2 ^ 26, 1>>       \* 2^53 + 1
Amounts == {StrInt(Num(1)), StrInt(Num(25)), StrInt(Num(50)), StrInt(BigOdd)}
BlacklistArgs == {<<"Admin decision", "@admin">>, <<"spam", "system">>}

Tick ==
    /\ now < MaxTime
    /\ now' = now + 1
    /\ lastEval' = None
    /\ lastAdd' = None
    /\ lastCall' = None
    /\ info' = IF info.pc = "idle" THEN NoInfo ELSE info
    /\ UNCHANGED <<outside, reward, ledger, lock, log, local, payments, nextTx, attempts, calls>>

LCheckEligibility ==
    \E wallet \in ValidAddresses, fault \in BOOLEAN :
        /\ ~lock
        /\ lastEval' = [wallet |-> wallet, fault |-> fault,
                        result |-> check_claim_eligibility(wallet, fault)]
        /\ UNCHANGED lastAdd
        /\ lastCall' = None
        /\ log' = IF fault
                  THEN log \cup {LogEntry("error", "check_claim_eligibility", wallet, NoTx)}
                  ELSE log
        /\ lock' = AsyncWithExit(ExitPath(fault))
        /\ info' = NoInfo
        /\ UNCHANGED <<outside, reward, now, ledger, local, payments, nextTx, attempts, calls>>

LRecordClaim ==
    \E wallet \in ValidAddresses, amount \in Amounts, fault \in BOOLEAN :
        /\ attempts < MaxCalls
        /\ record_claim(wallet, amount, TxHash(nextTx), fault)
        /\ nextTx' = nextTx + 1
        /\ attempts' = attempts + 1
        /\ lastEval' = None
        /\ lastAdd' = None
        /\ lastCall' = None
        /\ info' = NoInfo
        /\ UNCHANGED <<outside, reward, now, blacklist, local, payments>>

LAddToBlacklist ==
    \E wallet \in ValidAddresses, a \in BlacklistArgs, fault \in BOOLEAN :
        /\ attempts < MaxCalls
        /\ add_to_blacklist(wallet, a[1], a[2], fault)
        /\ attempts' = attempts + 1
        /\ lastEval' = None
        /\ lastAdd' = IF fault THEN None
                      ELSE [wallet |-> wallet, reason |-> a[1], blacklisted_by |-> a[2]]
        /\ lastCall' = None
        /\ info' = NoInfo
        /\ UNCHANGED <<outside, reward, now, claims, stats, local, payments, nextTx, calls>>

LRemoveFromBlacklist ==
    \E wallet \in ValidAddresses, fault \in BOOLEAN :
        /\ attempts < MaxCalls
        /\ remove_from_blacklist(wallet, fault)
        /\ attempts' = attempts + 1
        /\ lastEval' = None
        /\ lastAdd' = None
        /\ lastCall' = [op |-> "remove_from_blacklist", wallet |-> wallet, fault |-> fault,
                        listed |-> blacklist[wallet] # None,
                        result |-> RemoveResult(blacklist[wallet], fault)]
        /\ info' = NoInfo
        /\ UNCHANGED <<outside, reward, now, claims, stats, local, payments, nextTx, calls>>

\* self.check_claim_eligibility(wallet)[0] inside get_claim_info subscripts the
\* coroutine object, which raises TypeError before anything is awaited; had the
\* coroutine been awaited it would wait for _lock, which get_claim_info holds.
NestedCheckAwaited == "awaits"
NestedCheck == "raises"

\* get_claim_info up to its SELECT, which raises or not: _lock is taken.
LGetClaimInfo ==
    \E wallet \in ValidAddresses, fault \in BOOLEAN :
        /\ info.pc = "idle"
        /\ ~lock
        /\ lock' = TRUE
        /\ info' = [pc |-> "locked", wallet |-> wallet, fault |-> fault, result |-> None]
        /\ lastEval' = None
        /\ lastAdd' = None
        /\ lastCall' = None
        /\ UNCHANGED <<outside, reward, now, ledger, log, local, payments, nextTx, attempts, calls>>

\* get_claim_info from its SELECT to its return: None without a row or on an
\* exception, else the dict built from the row.
LGetClaimInfoReturn ==
    LET row == claims[info.wallet]
        raised == info.fault \/ (row # None /\ NestedCheck = "raises")
    IN
    /\ info.pc = "locked"
    /\ info.fault \/ row = None \/ NestedCheck # "awaits"
    /\ info' = [info EXCEPT !.pc = "idle", !.result = IF raised THEN None ELSE row]
    /\ log' = IF raised
              THEN log \cup {LogEntry("error", "get_claim_info", info.wallet, NoTx)}
              ELSE log
    /\ lock' = AsyncWithExit(ExitPath(raised))
    /\ UNCHANGED <<outside, reward, now, ledger, local, payments, nextTx, attempts, calls, lastEval, lastAdd, lastCall>>

LedgerNext ==
    \/ Tick
    \/ LCheckEligibility
    \/ LRecordClaim
    \/ LAddToBlacklist
    \/ LRemoveFromBlacklist

LedgerSpec == Init /\ [][LedgerNext]_vars

(***************************************************************************)
(* InfoSpec: a caller of FaucetDB that also looks records up with          *)
(* get_claim_info, whose two steps show _lock while it is held.            *)
(***************************************************************************)
\* record_claim as cmd_faucet calls it without NFT bonus.
IRecordClaim ==
    \E wallet \in ValidAddresses, fault \in BOOLEAN :
        /\ attempts < MaxCalls
        /\ record_claim(wallet, StrInt(Num(faucet_daily_amount)), TxHash(nextTx), fault)
        /\ nextTx' = nextTx + 1
        /\ attempts' = attempts + 1
        /\ lastEval' = None
        /\ lastAdd' = None
        /\ lastCall' = None
        /\ info' = NoInfo
        /\ UNCHANGED <<outside, reward, now, blacklist, local, payments>>

InfoNext ==
    \/ Tick
    \/ LCheckEligibility
    \/ IRecordClaim
    \/ LGetClaimInfo
    \/ LGetClaimInfoReturn

InfoSpec == Init /\ [][InfoNext]_vars

(***************************************************************************)
(* FrameSpec: every FaucetDB operation, each call observed by its name.    *)
(***************************************************************************)
Called(op, wallet, result) == [op |-> op, wallet |-> wallet, result |-> result]

\* A read: _lock taken and released, an error logged if sqlite3 raised.
ReadCall(op, wallet, fault, result) ==
    /\ ~lock
    /\ attempts < MaxCalls
    /\ attempts' = attempts + 1
    /\ log' = IF fault THEN log \cup {LogEntry("error", op, wallet, NoTx)} ELSE log
    /\ lock' = AsyncWithExit(ExitPath(fault))
    /\ lastCall' = Called(op, wallet, result)
    /\ lastEval' = None
    /\ lastAdd' = None
    /\ info' = NoInfo
    /\ UNCHANGED <<outside, reward, now, ledger, local, payments, nextTx, calls>>

FRecordClaim ==
    \E wallet \in ValidAddresses, fault \in BOOLEAN :
        /\ attempts < MaxCalls
        /\ record_claim(wallet, StrInt(Num(faucet_daily_amount)), TxHash(nextTx), fault)
        /\ nextTx' = nextTx + 1
        /\ attempts' = attempts + 1
        /\ lastCall' = Called("record_claim", wallet, ~fault)
        /\ lastEval' = None
        /\ lastAdd' = None
        /\ info' = NoInfo
        /\ UNCHANGED <<outside, reward, now, blacklist, local, payments>>

FAddToBlacklist ==
    \E wallet \in ValidAddresses, fault \in BOOLEAN :
        /\ attempts < MaxCalls
        /\ add_to_blacklist(wallet, "Admin decision", "@admin", fault)
        /\ attempts' = attempts + 1
        /\ lastCall' = Called("add_to_blacklist", wallet, ~fault)
        /\ lastEval' = None
        /\ lastAdd' = None
        /\ info' = NoInfo
        /\ UNCHANGED <<outside, reward, now, claims, stats, local, payments, nextTx, calls>>

FRemoveFromBlacklist ==
    \E wallet \in ValidAddresses, fault \in BOOLEAN :
        /\ attempts < MaxCalls
        /\ remove_from_blacklist(wallet, fault)
        /\ attempts' = attempts + 1
        /\ lastCall' = Called("remove_from_blacklist", wallet,
                              RemoveResult(blacklist[wallet], fault))
        /\ lastEval' = None
        /\ lastAdd' = None
        /\ info' = NoInfo
        /\ UNCHANGED <<outside, reward, now, claims, stats, local, payments, nextTx, calls>>

FCheckEligibility ==
    \E wallet \in ValidAddresses, fault \in BOOLEAN :
        ReadCall("check_claim_eligibility", wallet, fault,
                 check_claim_eligibility(wallet, fault))

FGetFaucetStats ==
    \E fault \in BOOLEAN :
        ReadCall("get_faucet_stats", "", fault, get_faucet_stats(fault))

FGetBlacklist ==
    \E fault \in BOOLEAN :
        ReadCall("get_blacklist", "", fault, get_blacklist(fault))

FGetRecentClaims ==
    \E fault \in BOOLEAN :
        ReadCall("get_recent_claims", "", fault, get_recent_claims(fault))

FrameNext ==
    \/ Tick
    \/ FRecordClaim
    \/ FAddToBlacklist
    \/ FRemoveFromBlacklist
    \/ FCheckEligibility
    \/ FGetFaucetStats
    \/ FGetBlacklist
    \/ FGetRecentClaims
    \/ LGetClaimInfo
    \/ LGetClaimInfoReturn

FrameSpec == Init /\ [][FrameNext]_vars

(***************************************************************************)
(* External collaborators (xrpl_utils.py, textrp_chatbot.py).              *)
(***************************************************************************)
AnyAddressValid(address) == TRUE
\* XRPLClient.is_valid_address
is_valid_address(address) == address \in ValidAddresses

\* TextRPChatbot.get_user_wallet_address: the localpart of "@<wallet>:server",
\* returned whether or not it looks like an address; None without the "@"
\* ("" here: cmd_faucet tests "not user_wallet", which None and "" both pass).
get_user_wallet_address(user_id) ==
    CASE user_id = "@rW1" -> "rW1"
      [] user_id = "@rW2" -> "rW2"
      [] user_id = "@bogus" -> "bogus"
      [] user_id = "@admin" -> "admin"
      [] OTHER -> ""

Absent == [known |-> FALSE, xrp |-> 0]            \* get_account_balance gave None
Xrp(n) == [known |-> TRUE, xrp |-> n]
\* get_account_balance: None for an invalid address or a failed lookup.
BalanceReplies(address) ==
    IF is_valid_address(address) THEN {Absent, Xrp(0), Xrp(5)} ELSE {Absent}
\* check_trust_line: None (FALSE) for an invalid address or no matching line.
TrustLineReplies(address) ==
    IF is_valid_address(address) THEN BOOLEAN ELSE {FALSE}
\* send_payment: None for an invalid destination, else success or an error.
PaymentReplies(address) ==
    IF is_valid_address(address) THEN {"success", "error"} ELSE {"none"}

(***************************************************************************)
(* cmd_faucet (main.py).  co[t].pc is the await the coroutine is suspended *)
(* at; a step runs it to its next await or to its return.                  *)
(***************************************************************************)
\* What a run of the handler ended with: the reply sent to the room, the
\* wallet, the payment made (NoTx if none) and whether record_claim stored it.
Outcome(kind, reason, wallet, paid, recorded) ==
    [kind |-> kind, reason |-> reason, wallet |-> wallet, paid |-> paid,
     recorded |-> recorded]

FinalAmountDoubleForOne(base_amount, nft_count) ==
    IF nft_count >= 1 THEN base_amount * (nft_count + 1) ELSE base_amount
\* int(base_amount * multiplier), multiplier 1.0, 1.5 or nft_count: the product
\* with 1.5 is exact in binary64 at these magnitudes and int() truncates it.
FinalAmount(base_amount, nft_count) ==
    IF nft_count = 1 THEN (base_amount * 3) \div 2
    ELSE IF nft_count >= 2 THEN base_amount * nft_count
    ELSE base_amount

\* The handler returns: the reply is sent, the locals are gone.
Finish(t, o) ==
    /\ co' = [co EXCEPT ![t] = Idle]
    /\ outcome' = o

Goto(t, frame) ==
    /\ co' = [co EXCEPT ![t] = frame]
    /\ UNCHANGED outcome

\* Entry: wallet extraction, then send_typing and the balance lookup.
FaucetStart(t) ==
    \E sender \in Senders \ AdminUsers :
        LET user_wallet == get_user_wallet_address(sender) IN
        /\ co[t].pc = "idle"
        /\ attempts < MaxAttempts
        /\ attempts' = attempts + 1
        /\ IF user_wallet = ""
           THEN Finish(t, Outcome("Rejected", "no wallet address", "", NoTx, FALSE))
           ELSE /\ co' = [co EXCEPT ![t] = [Idle EXCEPT !.pc = "balance",
                                                        !.user_wallet = user_wallet]]
                /\ UNCHANGED outcome
        /\ UNCHANGED <<outside, info, reward, now, ledger, lock, log, payments, nextTx, calls, lastEval, lastAdd, lastCall>>

\* xrp_balance is not None and xrp_balance < faucet_min_xrp_balance
BalanceTooLow(xrp_balance) ==
    xrp_balance.known /\ xrp_balance.xrp < faucet_min_xrp_balance

FaucetBalance(t) ==
    \E xrp_balance \in BalanceReplies(co[t].user_wallet) :
        /\ co[t].pc = "balance"
        /\ IF BalanceTooLow(xrp_balance)
           THEN Finish(t, Outcome("Denied", "insufficient balance",
                                  co[t].user_wallet, NoTx, FALSE))
           ELSE Goto(t, [co[t] EXCEPT !.pc = "trust", !.xrp_balance = xrp_balance])
        /\ UNCHANGED <<outside, info, reward, now, ledger, lock, log, payments, nextTx, attempts, calls, lastEval, lastAdd, lastCall>>

FaucetTrustLine(t) ==
    \E trust_line \in TrustLineReplies(co[t].user_wallet) :
        /\ co[t].pc = "trust"
        /\ IF ~trust_line
           THEN Finish(t, Outcome("Denied", "missing trust line",
                                  co[t].user_wallet, NoTx, FALSE))
           ELSE Goto(t, [co[t] EXCEPT !.pc = "eligibility"])
        /\ UNCHANGED <<outside, info, reward, now, ledger, lock, log, payments, nextTx, attempts, calls, lastEval, lastAdd, lastCall>>

FaucetEligibility(t) ==
    \E fault \in BOOLEAN :
        LET r == check_claim_eligibility(co[t].user_wallet, fault) IN
        /\ co[t].pc = "eligibility"
        /\ ~lock
        /\ log' = IF fault
                  THEN log \cup {LogEntry("error", "check_claim_eligibility",
                                          co[t].user_wallet, NoTx)}
                  ELSE log
        /\ IF ~r.ok
           THEN Finish(t, Outcome("Denied", r.reason, co[t].user_wallet, NoTx, FALSE))
           ELSE Goto(t, [co[t] EXCEPT !.pc = "nft"])
        /\ lock' = AsyncWithExit(ExitPath(fault))
        /\ UNCHANGED <<outside, info, reward, now, ledger, payments, nextTx, attempts, calls, lastEval, lastAdd, lastCall>>

FaucetNftCount(t) ==
    \E nft_count \in NftCounts :
        /\ co[t].pc = "nft"
        /\ Goto(t, [co[t] EXCEPT !.pc = "pay",
                                 !.nft_count = nft_count,
                                 !.final_amount = FinalAmount(faucet_daily_amount, nft_count)])
        /\ UNCHANGED <<outside, info, reward, now, ledger, lock, log, payments, nextTx, attempts, calls, lastEval, lastAdd, lastCall>>

TreatAnyResultAsSuccess(result) == result # None
\* result and result.get("success")
PaymentSucceeded(result) == result # None /\ result.success

FaucetPayment(t) ==
    \E reply \in PaymentReplies(co[t].user_wallet) :
        LET result == CASE reply = "success" -> [success |-> TRUE, tx_hash |-> TxHash(nextTx)]
                        [] reply = "error" -> [success |-> FALSE, tx_hash |-> NoTx]
                        [] OTHER -> None
        IN
        /\ co[t].pc = "pay"
        /\ IF reply = "success"
           THEN /\ payments' = payments \cup {[wallet |-> co[t].user_wallet, at |-> now,
                                                tx |-> TxHash(nextTx),
                                                amount |-> co[t].final_amount]}
                /\ nextTx' = nextTx + 1
                /\ log' = log \cup {LogEntry("info", "send_payment", co[t].user_wallet,
                                              TxHash(nextTx))}
           ELSE /\ log' = log \cup {LogEntry("error", "send_payment", co[t].user_wallet, NoTx)}
                /\ UNCHANGED <<payments, nextTx>>
        /\ IF PaymentSucceeded(result)
           THEN Goto(t, [co[t] EXCEPT !.pc = "record", !.result = result])
           ELSE Finish(t, Outcome("Failed", "Failed to send tokens",
                                  co[t].user_wallet, NoTx, FALSE))
        /\ UNCHANGED <<outside, info, reward, now, ledger, lock, attempts, calls, lastEval, lastAdd, lastCall>>

\* record_claim's return value is not looked at; the success message follows.
FaucetRecord(t) ==
    \E fault \in BOOLEAN :
        /\ co[t].pc = "record"
        /\ record_claim(co[t].user_wallet, StrInt(Num(co[t].final_amount)),
                        co[t].result.tx_hash, fault)
        /\ Finish(t, Outcome("Success", "Faucet Claim Successful", co[t].user_wallet,
                              co[t].result.tx_hash, ~fault))
        /\ UNCHANGED <<outside, info, reward, now, blacklist, payments, nextTx, attempts, lastEval, lastAdd, lastCall>>

(***************************************************************************)
(* cmd_blacklist, cmd_whitelist and cmd_faucetstats (main.py): the admin    *)
(* test, the address test, then one FaucetDB call each.                    *)
(***************************************************************************)
IsAdminAnySender(sender) == TRUE
\* not (event.sender not in self.config.faucet_admin_users)
IsAdmin(sender) == sender \in AdminUsers

\* The reply of an admin command that takes an address; `ok` is what the
\* FaucetDB call returned.
AddressCommandReply(sender, address, ok, done, failed) ==
    IF ~IsAdmin(sender) THEN "Admin command only."
    ELSE IF ~is_valid_address(address) THEN "Invalid XRPL address."
    ELSE IF ok THEN done ELSE failed

cmd_blacklist(sender, address, reason, fault) ==
    IF IsAdmin(sender) /\ is_valid_address(address)
    THEN add_to_blacklist(address, reason, sender, fault)
    ELSE UNCHANGED <<blacklist, log, lock>>

cmd_whitelist(sender, address, fault) ==
    IF IsAdmin(sender) /\ is_valid_address(address)
    THEN remove_from_blacklist(address, fault)
    ELSE UNCHANGED <<blacklist, log, lock>>

\* The statistics cmd_faucetstats puts in its reply: none for a sender that
\* is not an admin, else stats.get(key, default) of get_faucet_stats' result.
FaucetStatsShown(sender, fault) ==
    IF ~IsAdmin(sender) THEN None
    ELSE IF get_faucet_stats(fault) = None
         THEN [total_claims |-> 0, total_distributed |-> StrInt(Num(0)),
               unique_wallets |-> 0, last_updated |-> -1,
               claims_24h |-> 0, blacklisted_count |-> 0]
         ELSE get_faucet_stats(fault)

cmd_faucetstats(sender, fault) ==
    IF IsAdmin(sender)
    THEN /\ ~lock
         /\ log' = IF fault
                   THEN log \cup {LogEntry("error", "get_faucet_stats", "", NoTx)}
                   ELSE log
         /\ lock' = AsyncWithExit(ExitPath(fault))
    ELSE UNCHANGED <<log, lock>>

CmdBlacklist ==
    \E sender \in Senders, address \in Addresses, reason \in {"Admin decision"},
       fault \in BOOLEAN :
        /\ attempts < MaxAttempts
        /\ attempts' = attempts + 1
        /\ cmd_blacklist(sender, address, reason, fault)
        /\ UNCHANGED <<outside, info, reward, now, claims, stats, local, payments, nextTx, calls, lastEval, lastAdd, lastCall>>

CmdWhitelist ==
    \E sender \in Senders, address \in Addresses, fault \in BOOLEAN :
        /\ attempts < MaxAttempts
        /\ attempts' = attempts + 1
        /\ cmd_whitelist(sender, address, fault)
        /\ UNCHANGED <<outside, info, reward, now, claims, stats, local, payments, nextTx, calls, lastEval, lastAdd, lastCall>>

(***************************************************************************)
(* AdminSpec: the admin commands one at a time, each observed with its     *)
(* sender, its address and its reply, over a ledger filled by record_claim. *)
(***************************************************************************)
Observed(command, sender, address, ok, reply, shown) ==
    [op |-> command, sender |-> sender, address |-> address, ok |-> ok,
     reply |-> reply, stats |-> shown]

ACmdBlacklist ==
    \E sender \in Senders, address \in Addresses, fault \in BOOLEAN :
        /\ attempts < MaxCalls
        /\ attempts' = attempts + 1
        /\ cmd_blacklist(sender, address, "Admin decision", fault)
        /\ lastCall' = Observed("blacklist", sender, address, ~fault,
                                AddressCommandReply(sender, address, ~fault,
                                    "Blacklisted",
                                    "Failed to blacklist address."), None)
        /\ lastEval' = None
        /\ lastAdd' = None
        /\ info' = NoInfo
        /\ UNCHANGED <<outside, reward, now, claims, stats, local, payments, nextTx, calls>>

ACmdWhitelist ==
    \E sender \in Senders, address \in Addresses, fault \in BOOLEAN :
        /\ attempts < MaxCalls
        /\ attempts' = attempts + 1
        /\ cmd_whitelist(sender, address, fault)
        /\ lastCall' = Observed("whitelist", sender, address,
                                RemoveResult(blacklist[address], fault),
                                AddressCommandReply(sender, address,
                                    RemoveResult(blacklist[address], fault),
                                    "Removed from blacklist",
                                    "Failed to remove from blacklist."), None)
        /\ lastEval' = None
        /\ lastAdd' = None
        /\ info' = NoInfo
        /\ UNCHANGED <<outside, reward, now, claims, stats, local, payments, nextTx, calls>>

\* A query: it changes no table and is not counted in attempts.
ACmdFaucetStats ==
    \E sender \in Senders, fault \in BOOLEAN :
        /\ cmd_faucetstats(sender, fault)
        /\ lastCall' = Observed("faucetstats", sender, "", ~fault,
                                IF IsAdmin(sender) THEN "Faucet Statistics"
                                ELSE "Admin command only.",
                                FaucetStatsShown(sender, fault))
        /\ lastEval' = None
        /\ lastAdd' = None
        /\ info' = NoInfo
        /\ UNCHANGED <<outside, reward, now, ledger, local, payments, nextTx, attempts, calls>>

AdminNext ==
    \/ Tick
    \/ IRecordClaim
    \/ ACmdBlacklist
    \/ ACmdWhitelist
    \/ ACmdFaucetStats

AdminSpec == Init /\ [][AdminNext]_vars

Next ==
    \/ Tick
    \/ \E t \in Tasks :
         \/ FaucetStart(t)
         \/ FaucetBalance(t)
         \/ FaucetTrustLine(t)
         \/ FaucetEligibility(t)
         \/ FaucetNftCount(t)
         \/ FaucetPayment(t)
         \/ FaucetRecord(t)
    \/ CmdBlacklist
    \/ CmdWhitelist

Spec == Init /\ [][Next]_vars

(***************************************************************************)
(* SyncSpec: the handlers as TextRPChatbot.sync_once dispatches them       *)
(* (textrp_chatbot.py): for each event of the timeline it awaits           *)
(* _process_event, which awaits _process_command, which awaits the         *)
(* handler; the loop is at its next event only when no handler is running. *)
(***************************************************************************)
HandlerSpawned == FALSE
\* _process_command runs the handler with "await handler(room, event, args)".
HandlerAwaited == TRUE

\* The sync loop is at an event: every handler awaited so far has returned.
AtNextEvent == HandlerAwaited => \A t \in Tasks : co[t].pc = "idle"

SyncFaucet(t) == AtNextEvent /\ FaucetStart(t)
SyncBlacklist == AtNextEvent /\ CmdBlacklist
SyncWhitelist == AtNextEvent /\ CmdWhitelist

SyncNext ==
    \/ Tick
    \/ \E t \in Tasks :
         \/ SyncFaucet(t)
         \/ FaucetBalance(t)
         \/ FaucetTrustLine(t)
         \/ FaucetEligibility(t)
         \/ FaucetNftCount(t)
         \/ FaucetPayment(t)
         \/ FaucetRecord(t)
    \/ SyncBlacklist
    \/ SyncWhitelist

SyncSpec == Init /\ [][SyncNext]_vars

(***************************************************************************)
(* RewardSpec: the reward computation of cmd_faucet on its own, for every  *)
(* base amount and every count of matching NFTs of the bounds.             *)
(***************************************************************************)
BaseAmounts == (1..MaxBase) \cup {faucet_daily_amount}

RewardInit ==
    /\ InitBot
    /\ InitOutside
    /\ reward \in [base_amount : BaseAmounts, nft_count : 0..MaxNfts,
                    final_amount : {0}, done : {FALSE}]

ComputeReward ==
    /\ ~reward.done
    /\ reward' = [reward EXCEPT !.final_amount = FinalAmount(reward.base_amount,
                                                             reward.nft_count),
                                !.done = TRUE]
    /\ UNCHANGED <<outside, now, ledger, lock, log, local, payments, nextTx, attempts,
                   calls, lastEval, lastAdd, lastCall, info>>

RewardNext == ComputeReward

RewardSpec == RewardInit /\ [][RewardNext]_vars

(***************************************************************************)
(* RetrySpec: one XRPLClient.get_account_balance call (xrpl_utils.py)      *)
(* against a node that raises ConnectionError on its first `failures`      *)
(* requests and then gives `answer`.                                       *)
(***************************************************************************)
max_retries == 3

\* drops_to_xrp: Decimal(drops) / 10^6, as <<whole XRP, millionths>>.
drops_to_xrp(drops) == <<drops \div 1000000, drops % 1000000>>

Answers == {"success", "actNotFound", "actNotFound, then success", "error"}
Drops == {0, 1000000, 1500000}

RetryInit ==
    /\ InitBot
    /\ reward = None
    /\ issuers = None
    /\ fetch \in [pc : {"called"}, address : Addresses, strict : {TRUE},
                   failures : 0..MaxFailures, answer : Answers, drops : Drops,
                   attempt : {0}, requests : {0}, result : {None}]

\* What client.request does on the call after `requests` calls.
NodeReply(f) ==
    IF f.requests < f.failures THEN "ConnectionError"
    ELSE IF f.answer = "actNotFound, then success"
         THEN (IF f.strict THEN "actNotFound" ELSE "success")
         ELSE f.answer

ExceptionPropagates(exception) == TRUE
\* Whether an exception raised by client.request leaves
\* _execute_account_info_request: its "except Exception" catches every one,
\* logs it at debug level and returns None.
ExceptionLeavesExecute(exception) == FALSE

Returned(f, result) == [f EXCEPT !.pc = "returned", !.result = result]

\* get_account_balance -> get_account_info: the address test, then into
\* _try_get_account_info_with_retry with attempt 0.
FetchCall ==
    /\ fetch.pc = "called"
    /\ fetch' = IF is_valid_address(fetch.address)
                THEN [fetch EXCEPT !.pc = "request"]
                ELSE Returned(fetch, None)
    /\ UNCHANGED <<issuers, now, ledger, lock, log, local, payments, nextTx, attempts,
                   calls, lastEval, lastAdd, lastCall, info, reward>>

\* One client.request of _execute_account_info_request and what follows it up
\* to the next request or the return of get_account_balance.
FetchRequest ==
    LET reply == NodeReply(fetch)
        asked == [fetch EXCEPT !.requests = fetch.requests + 1]
    IN
    /\ fetch.pc = "request"
    /\ fetch' =
         CASE reply = "success" ->
                Returned(asked, drops_to_xrp(fetch.drops))
           [] reply = "actNotFound" /\ fetch.strict ->
                [asked EXCEPT !.strict = FALSE]
           [] reply = "ConnectionError" /\ ExceptionLeavesExecute(reply) ->
                \* except XRPL_RETRY_EXCEPTIONS in the retry loop
                IF fetch.attempt < max_retries - 1
                THEN [asked EXCEPT !.attempt = fetch.attempt + 1, !.strict = TRUE]
                ELSE Returned(asked, None)
           [] OTHER ->
                Returned(asked, None)
    /\ UNCHANGED <<issuers, now, ledger, lock, log, local, payments, nextTx, attempts,
                   calls, lastEval, lastAdd, lastCall, info, reward>>

RetryNext ==
    \/ FetchCall
    \/ FetchRequest

RetrySpec == RetryInit /\ [][RetryNext]_vars

(***************************************************************************)
(* IssuerSpec: the issuers one cmd_faucet run uses, for every setting of   *)
(* FAUCET_TOKEN_ISSUER and FAUCET_COLD_WALLET and every set of trust       *)
(* lines of the claiming wallet.                                           *)
(***************************************************************************)
IssuerAddresses == {"rCold", "rIssuer", "rOther"}
\* os.getenv(name): None when the variable is not set, else its text.
Unset == [set |-> FALSE, value |-> ""]
Setting(text) == [set |-> TRUE, value |-> text]

IssuerInit ==
    /\ InitBot
    /\ reward = None
    /\ fetch = None
    /\ issuers \in [pc : {"trust"},
                     \* os.getenv("FAUCET_TOKEN_ISSUER")
                     faucet_token_issuer :
                         {Unset} \cup {Setting(a) : a \in IssuerAddresses \cup {""}},
                     \* os.getenv("FAUCET_COLD_WALLET", "")
                     faucet_cold_wallet : IssuerAddresses \cup {""},
                     \* issuers of the wallet's trust lines for the currency
                     lines : SUBSET IssuerAddresses,
                     checked : {""}, named : {""}, paid : {""}]

token_issuer_ColdWalletOnly(c) == c.faucet_cold_wallet
\* BotConfig.token_issuer: self.faucet_token_issuer or self.faucet_cold_wallet
token_issuer(c) ==
    IF c.faucet_token_issuer.set /\ c.faucet_token_issuer.value # ""
    THEN c.faucet_token_issuer.value
    ELSE c.faucet_cold_wallet

\* check_trust_line(user_wallet, currency, issuer): a line of that issuer.
check_trust_line(c, issuer) == issuer \in c.lines

\* The trust-line step: the check against faucet_cold_wallet, then the denial
\* that names token_issuer or on to the payment.
IssuerTrustLine ==
    /\ issuers.pc = "trust"
    /\ issuers' =
         IF ~check_trust_line(issuers, issuers.faucet_cold_wallet)
         THEN [issuers EXCEPT !.pc = "denied",
                              !.checked = issuers.faucet_cold_wallet,
                              !.named = token_issuer(issuers)]
         ELSE [issuers EXCEPT !.pc = "pay",
                              !.checked = issuers.faucet_cold_wallet]
    /\ UNCHANGED <<fetch, now, ledger, lock, log, local, payments, nextTx, attempts,
                   calls, lastEval, lastAdd, lastCall, info, reward>>

\* send_payment(..., issuer=self.config.token_issuer, ...)
IssuerPayment ==
    /\ issuers.pc = "pay"
    /\ issuers' = [issuers EXCEPT !.pc = "paid", !.paid = token_issuer(issuers)]
    /\ UNCHANGED <<fetch, now, ledger, lock, log, local, payments, nextTx, attempts,
                   calls, lastEval, lastAdd, lastCall, info, reward>>

IssuerNext ==
    \/ IssuerTrustLine
    \/ IssuerPayment

IssuerSpec == IssuerInit /\ [][IssuerNext]_vars

(***************************************************************************)
(* Properties.                                                             *)
(***************************************************************************)
InFlight == {"balance", "trust", "eligibility", "nft", "pay", "record"}

RECURSIVE SumOver(_, _)
SumOver(S, f) ==
    IF S = {} THEN 0
    ELSE LET x == CHOOSE y \in S : TRUE IN f[x] + SumOver(S \ {x}, f)

RECURSIVE BigSumOver(_, _)
BigSumOver(S, f) ==
    IF S = {} THEN Num(0)
    ELSE LET x == CHOOSE y \in S : TRUE IN BigAdd(f[x], BigSumOver(S \ {x}, f))

Rows == {w \in Addresses : claims[w] # None}

\* C1: at most one payment is made to a wallet per cooldown period: any two
\* payments to the same wallet lie at least cooldown_hours apart.
C1_OnePaymentPerCooldown ==
    \A p, q \in payments :
        (p # q /\ p.wallet = q.wallet)
            => (p.at - q.at >= cooldown_hours \/ q.at - p.at >= cooldown_hours)

C3_FailedPaymentLeavesLedger ==
    [][\A t \in Tasks :
          (co[t].pc = "pay" /\ co'[t] # co[t] /\ payments' = payments)
              => (/\ co'[t].pc = "idle"
                  /\ outcome'.kind = "Failed"
                  /\ outcome'.wallet = co[t].user_wallet
                  /\ ledger' = ledger)]_vars

\* C3 witness: an attempt ended Failed, nothing was paid, and its wallet has no row.
C3_Witness ==
    /\ outcome.kind = "Failed"
    /\ outcome.wallet \in ValidAddresses
    /\ claims[outcome.wallet] = None
    /\ payments = {}
    /\ \E e \in log : e.op = "send_payment" /\ e.level = "error"

\* C4: a payment that record_claim failed to store is flagged: the run does not
\* end as a plain success and an error-level log entry carries its tx hash.
C4_UnrecordedPaymentFlagged ==
    (outcome.paid # NoTx /\ ~outcome.recorded)
        => (/\ outcome.kind # "Success"
            /\ \E e \in log : e.level = "error" /\ e.tx = outcome.paid)

\* C5: an attempt whose balance lookup gave None never gets a payment through:
\* it is never at the record_claim step, which follows an accepted payment.
C5_AbsentBalanceDenied ==
    \A t \in Tasks : co[t].pc \in {"pay", "record"} => co[t].xrp_balance.known

\* C6: check_claim_eligibility is the first-match decision: blacklisted, else
\* eligible without a row, else cooldown if now - last_claim < cooldown, else eligible.
C6_FirstMatchDecision ==
    (lastEval # None /\ ~lastEval.fault) =>
        LET w == lastEval.wallet
            r == lastEval.result
        IN  /\ blacklist[w] # None
                => (~r.ok /\ r.reason = "Wallet is blacklisted from faucet")
            /\ (blacklist[w] = None /\ claims[w] = None) => r.ok
            /\ (blacklist[w] = None /\ claims[w] # None
                    /\ now - claims[w].last_claim < cooldown_hours)
                => (~r.ok /\ r.reason = "Please wait"
                        /\ r.hours = cooldown_hours - (now - claims[w].last_claim))
            /\ (blacklist[w] = None /\ claims[w] # None
                    /\ ~(now - claims[w].last_claim < cooldown_hours))
                => r.ok

\* C6 witness: a wallet that is blacklisted while its cooldown is active was
\* evaluated, and denied as blacklisted.
C6_Witness ==
    /\ lastEval # None
    /\ ~lastEval.fault
    /\ blacklist[lastEval.wallet] # None
    /\ claims[lastEval.wallet] # None
    /\ now - claims[lastEval.wallet].last_claim < cooldown_hours
    /\ lastEval.result.reason = "Wallet is blacklisted from faucet"

\* C7: for a wallet that is not blacklisted and last claimed at T, the check
\* denies strictly before T + cooldown and allows at or after T + cooldown.
C7_StrictCooldownBoundary ==
    (/\ lastEval # None
     /\ ~lastEval.fault
     /\ blacklist[lastEval.wallet] = None
     /\ claims[lastEval.wallet] # None)
        => (lastEval.result.ok
                <=> now >= claims[lastEval.wallet].last_claim + cooldown_hours)

\* C7 witness: evaluated exactly at T + cooldown, and eligible.
C7_Witness ==
    /\ lastEval # None
    /\ ~lastEval.fault
    /\ blacklist[lastEval.wallet] = None
    /\ claims[lastEval.wallet] # None
    /\ now = claims[lastEval.wallet].last_claim + cooldown_hours
    /\ lastEval.result.ok

\* C8: after the record_claim calls that returned True for a wallet, its row has
\* claim_count = their number, total_claimed = the sum of their amounts and
\* last_tx_hash = the hash of the last one.
C8_RowMatchesCalls ==
    \A w \in ValidAddresses :
        calls[w].n > 0 =>
            /\ claims[w] # None
            /\ claims[w].claim_count = calls[w].n
            /\ claims[w].total_claimed.num = calls[w].sum
            /\ claims[w].last_tx_hash = calls[w].tx

\* C9: total_claims is the sum of claim_count over the rows of claims, and
\* unique_wallets is the number of rows.
C9_AggregateCounts ==
    /\ stats.total_claims = SumOver(Rows, [w \in Rows |-> claims[w].claim_count])
    /\ stats.unique_wallets = Cardinality(Rows)

\* C9 witness: two claims recorded for one wallet, so the two counters differ.
C9_Witness ==
    /\ stats.total_claims = 2
    /\ stats.unique_wallets = 1
    /\ \E w \in Rows : claims[w].claim_count = 2

\* C10: total_distributed is the sum of total_claimed over the rows of claims.
C10_TotalDistributed ==
    stats.total_distributed.num
        = BigSumOver(Rows, [w \in Rows |-> claims[w].total_claimed.num])

BigLeq(a, b) == a[1] < b[1] \/ (a[1] = b[1] /\ a[2] <= b[2])

\* C11: every row of claims has claim_count >= 1 and last_claim >= first_claim,
\* and no step removes a row, changes its first_claim, or lowers its claim_count
\* or its total_claimed.
C11_RecordInvariants ==
    [][/\ \A w \in Addresses :
            claims'[w] # None =>
                /\ claims'[w].claim_count >= 1
                /\ claims'[w].last_claim >= claims'[w].first_claim
       /\ \A w \in Rows :
            /\ claims'[w] # None
            /\ claims'[w].first_claim = claims[w].first_claim
            /\ claims'[w].claim_count >= claims[w].claim_count
            /\ BigLeq(claims[w].total_claimed.num, claims'[w].total_claimed.num)]_vars

\* C12: record_claim is all-or-nothing: a call that did not return True (calls
\* is unchanged) leaves claims and stats as they were, and a call that returned
\* True changed the row together with total_claims and unique_wallets, so no
\* state has the row updated without the statistics.
C12_RecordClaimAllOrNothing ==
    [][/\ calls' = calls => (claims' = claims /\ stats' = stats)
       /\ \A w \in Addresses :
            calls'[w] # calls[w] =>
                /\ claims'[w] # claims[w]
                /\ stats'.total_claims = stats.total_claims + 1
                /\ stats'.unique_wallets =
                        stats.unique_wallets + (IF claims[w] = None THEN 1 ELSE 0)
                /\ stats'.last_updated = claims'[w].last_claim]_vars

\* C12 witness: one record_claim for a wallet was stored and another one for
\* the same wallet failed.
C12_Witness ==
    \E e \in log :
        /\ e.level = "error"
        /\ e.op = "record_claim"
        /\ calls[e.wallet].n = 1
        /\ claims[e.wallet] # None
        /\ claims[e.wallet].claim_count = 1
        /\ stats.total_claims = 1
        /\ attempts = 2

\* C13: the amount is floor(base * multiplier) with multiplier 1 for no matching
\* NFT, 1.5 for exactly one and the count itself from two on, without a cap; for
\* base 100 that is 100, 150 and 300 for counts 0, 1 and 3.
C13_RewardFormula ==
    reward.done =>
        LET b == reward.base_amount
            n == reward.nft_count
            a == reward.final_amount
        IN  /\ n = 0 => a = b
            /\ n = 1 => (2 * a <= 3 * b /\ 3 * b < 2 * a + 2)
            /\ n >= 2 => a = n * b
            /\ (b = 100 /\ n = 0) => a = 100
            /\ (b = 100 /\ n = 1) => a = 150
            /\ (b = 100 /\ n = 3) => a = 300

\* C13 witness: base 100 with one matching NFT gave 150.
C13_Witness ==
    /\ reward.done
    /\ reward.base_amount = 100
    /\ reward.nft_count = 1
    /\ reward.final_amount = 150

\* C14: an eligibility check that hits a storage fault (it logs the error) ends
\* the attempt as Denied in that step, with no payment; it never lets it go on.
C14_FaultDeniesByDefault ==
    [][\A t \in Tasks :
          (co[t].pc = "eligibility" /\ co'[t] # co[t] /\ log' # log)
              => (/\ co'[t].pc = "idle"
                  /\ outcome'.kind = "Denied"
                  /\ outcome'.reason = "Database error occurred"
                  /\ outcome'.wallet = co[t].user_wallet
                  /\ outcome'.paid = NoTx
                  /\ payments' = payments)]_vars

\* C14 witness: an attempt of a wallet that nothing else stands against was
\* denied on a storage fault.
C14_Witness ==
    /\ outcome.kind = "Denied"
    /\ outcome.reason = "Database error occurred"
    /\ outcome.wallet \in ValidAddresses
    /\ blacklist[outcome.wallet] = None
    /\ claims[outcome.wallet] = None
    /\ payments = {}
    /\ \E e \in log : e.op = "check_claim_eligibility" /\ e.level = "error"
                        /\ e.wallet = outcome.wallet

\* C15: _lock is free whenever no FaucetDB operation is inside its "async with",
\* whichever way the last one left it; the operation that holds it can always
\* finish; and with the lock free an eligibility check can go ahead.
C15_LockReleased ==
    /\ info.pc = "idle" => ~lock
    /\ info.pc = "locked" => ENABLED LGetClaimInfoReturn
    /\ info.pc = "idle" => ENABLED LCheckEligibility

\* C15 witness: get_claim_info left its "async with" through the exception
\* handler for a wallet that has a row, and the lock is free.
C15_Witness ==
    /\ info.pc = "idle"
    /\ info.wallet \in Rows
    /\ ~info.fault
    /\ \E e \in log : e.op = "get_claim_info" /\ e.level = "error"
                        /\ e.wallet = info.wallet
    /\ ~lock

C17_StepOrder ==
    [][/\ \A t \in Tasks :
            co'[t] # co[t] =>
                /\ <<co[t].pc, co'[t].pc>> \in
                        {<<"idle", "balance">>, <<"balance", "trust">>,
                         <<"trust", "eligibility">>, <<"eligibility", "nft">>,
                         <<"nft", "pay">>, <<"pay", "record">>,
                         <<"balance", "idle">>, <<"trust", "idle">>,
                         <<"eligibility", "idle">>, <<"pay", "idle">>,
                         <<"record", "idle">>}
                /\ co'[t].pc = "trust" =>
                        /\ co'[t].xrp_balance.known
                        /\ co'[t].xrp_balance.xrp >= faucet_min_xrp_balance
                /\ (co[t].pc = "balance" /\ co'[t].pc = "idle") =>
                        (outcome'.kind = "Denied" /\ outcome'.reason = "insufficient balance")
                /\ (co[t].pc = "trust" /\ co'[t].pc = "idle") =>
                        (outcome'.kind = "Denied" /\ outcome'.reason = "missing trust line")
                /\ (co[t].pc = "eligibility" /\ co'[t].pc = "idle") =>
                        /\ outcome'.kind = "Denied"
                        /\ outcome'.reason \in {"Wallet is blacklisted from faucet",
                                                 "Please wait", "Database error occurred"}
                /\ (co[t].pc = "pay" /\ co'[t].pc = "idle") => outcome'.kind = "Failed"
                /\ (co[t].pc = "record" /\ co'[t].pc = "idle") => outcome'.kind = "Success"
       /\ payments' # payments =>
            \E t \in Tasks : co[t].pc = "pay" /\ co'[t].pc = "record"]_vars

C19_GetClaimRecord ==
    [][(info.pc = "locked" /\ info'.pc = "idle")
          => (/\ ledger' = ledger
              /\ ~info'.fault => info'.result = claims'[info'.wallet])]_vars

\* C20: after an add_to_blacklist call that returned True the wallet's blacklist
\* row carries the reason and the actor of that call, whatever row it had
\* before, and an eligibility check of the wallet made then is denied as
\* blacklisted.
C20_BlacklistUpsert ==
    lastAdd # None =>
        /\ blacklist[lastAdd.wallet] # None
        /\ blacklist[lastAdd.wallet].reason = lastAdd.reason
        /\ blacklist[lastAdd.wallet].blacklisted_by = lastAdd.blacklisted_by
        /\ (lastEval # None /\ ~lastEval.fault /\ lastEval.wallet = lastAdd.wallet)
                => (/\ ~lastEval.result.ok
                    /\ lastEval.result.reason = "Wallet is blacklisted from faucet")

\* C20 witness: the two calls made so far both blacklisted the same wallet, the
\* second one later and by the admin, and its eligibility check was then denied.
C20_Witness ==
    /\ lastAdd # None
    /\ lastAdd.reason = "Admin decision"
    /\ attempts = 2
    /\ Rows = {}
    /\ \A e \in log : e.op = "add_to_blacklist"
    /\ \A w \in ValidAddresses : w # lastAdd.wallet => blacklist[w] = None
    /\ blacklist[lastAdd.wallet] # None
    /\ blacklist[lastAdd.wallet].blacklisted_at > 0
    /\ \E e \in log : e.op = "add_to_blacklist" /\ e.level = "info"
    /\ ~(\E e \in log : e.level = "error")
    /\ lastEval # None
    /\ lastEval.wallet = lastAdd.wallet
    /\ ~lastEval.result.ok

\* C21: a remove_from_blacklist call that meets no storage fault returns True
\* and leaves the wallet not blacklisted and every other row as it was; when
\* the wallet was not blacklisted (a second call in a row, or a wallet never
\* listed) no table changes at all.
C21_RemoveIdempotent ==
    [][(/\ lastCall' # None
        /\ lastCall'.op = "remove_from_blacklist"
        /\ attempts' = attempts + 1
        /\ ~lastCall'.fault)
          => (/\ lastCall'.result
              /\ blacklist'[lastCall'.wallet] = None
              /\ \A w \in Addresses : w # lastCall'.wallet => blacklist'[w] = blacklist[w]
              /\ blacklist[lastCall'.wallet] = None => ledger' = ledger
              /\ <<claims', stats'>> = <<claims, stats>>)]_vars

\* C21 witness: the two calls made so far both removed the same wallet, which
\* was never blacklisted, and the second one returned True.
C21_Witness ==
    /\ lastCall # None
    /\ lastCall.op = "remove_from_blacklist"
    /\ lastCall.result
    /\ ~lastCall.listed
    /\ attempts = 2
    /\ log = {LogEntry("info", "remove_from_blacklist", lastCall.wallet, NoTx)}
    /\ blacklist[lastCall.wallet] = None

\* C22: blacklist, whitelist and faucetstats act only for a sender in the
\* admin allow-list: a command from any other sender leaves the blacklist (and
\* the rest of the ledger) as it was, is answered "Admin command only." and
\* shows no statistics.
C22_AdminOnly ==
    [][(/\ lastCall' # None
        /\ lastCall'.op \in {"blacklist", "whitelist", "faucetstats"}
        /\ lastCall'.sender \notin AdminUsers)
       => (/\ ledger' = ledger
           /\ log' = log
           /\ lastCall'.reply = "Admin command only."
           /\ lastCall'.stats = None)]_vars

\* A sender that is not an admin has asked for the statistics of a faucet that
\* has recorded a claim, and was shown none.
C22_Witness ==
    /\ lastCall # None
    /\ lastCall.op = "faucetstats"
    /\ lastCall.sender = "@rW1"
    /\ stats.total_claims >= 1
    /\ lastCall.stats = None

\* C23: a malformed wallet address is rejected before any ledger access: no
\* cmd_faucet run for an address outside the valid ones gets as far as its
\* eligibility check, no FaucetDB call is ever made (and so logged) for such an
\* address, and no claims or blacklist row for it exists.
C23_MalformedAddressNeverReachesLedger ==
    /\ \A t \in Tasks :
          co[t].pc \in {"eligibility", "nft", "pay", "record"}
          => co[t].user_wallet \in ValidAddresses
    /\ \A e \in log :
          e.op \in {"check_claim_eligibility", "record_claim", "add_to_blacklist",
                    "remove_from_blacklist"}
          => e.wallet \in ValidAddresses
    /\ \A w \in Addresses \ ValidAddresses :
          claims[w] = None /\ blacklist[w] = None
    /\ \A p \in payments : p.wallet \in ValidAddresses

\* A faucet command for the malformed address has returned, denied at the
\* trust-line lookup, with the ledger untouched.
C23_Witness ==
    /\ outcome.wallet = "bogus"
    /\ outcome.kind = "Denied"
    /\ outcome.reason = "missing trust line"
    /\ ledger = <<[w \in Addresses |-> None], [w \in Addresses |-> None], InitStats>>
    /\ log = {}

\* C24: the claims-in-last-24h value that faucetstats reports is the number of
\* claims rows whose last_claim is less than the window before the query: a
\* wallet counts once however often it claimed, and the value never exceeds
\* unique_wallets.
C24_RecentClaimsCountsWallets ==
    (/\ lastCall # None
     /\ lastCall.op = "faucetstats"
     /\ lastCall.sender \in AdminUsers
     /\ lastCall.ok)
    => /\ lastCall.stats.claims_24h
            = Cardinality({w \in Rows : now - claims[w].last_claim < recent_hours})
       /\ lastCall.stats.claims_24h <= Cardinality(Rows)
       /\ lastCall.stats.claims_24h <= lastCall.stats.unique_wallets

\* An admin has queried the statistics after one wallet claimed twice within
\* the window: one recent claim is reported.
C24_Witness ==
    /\ lastCall # None
    /\ lastCall.op = "faucetstats"
    /\ lastCall.sender \in AdminUsers
    /\ lastCall.ok
    /\ \E w \in Rows : claims[w].claim_count = 2
    /\ lastCall.stats.claims_24h = 1

ReadOperations ==
    {"check_claim_eligibility", "get_faucet_stats", "get_blacklist", "get_recent_claims"}

\* C25: only record_claim changes a claims row or the stats row, and no
\* operation deletes a claims row; add_to_blacklist and remove_from_blacklist
\* change only the blacklist table; the reads (eligibility check, claim
\* lookup, stats, blacklist listing, recent claims) change no table.
C25_Frame ==
    [][/\ \A w \in Addresses : claims[w] # None => claims'[w] # None
       /\ (claims' # claims \/ stats' # stats)
          => (lastCall' # None /\ lastCall'.op = "record_claim")
       /\ (lastCall' # None
           /\ lastCall'.op \in {"add_to_blacklist", "remove_from_blacklist"})
          => (claims' = claims /\ stats' = stats)
       /\ (lastCall' # None /\ lastCall'.op \in ReadOperations)
          => ledger' = ledger
       /\ (info.pc = "locked" \/ info'.pc = "locked") => ledger' = ledger]_vars

\* add_to_blacklist has listed a wallet that has a claims row, and the row and
\* the stats are as record_claim left them.
C25_Witness ==
    /\ lastCall # None
    /\ lastCall.op = "add_to_blacklist"
    /\ lastCall.result
    /\ blacklist[lastCall.wallet] # None
    /\ claims[lastCall.wallet] # None
    /\ stats.total_claims = 1

\* C26: when the request raises a connection error on fewer than 3 consecutive
\* attempts and then succeeds, get_account_balance returns the balance of the
\* successful response after exactly failures + 1 requests.
C26_RetryUntilSuccess ==
    (/\ fetch.pc = "returned"
     /\ is_valid_address(fetch.address)
     /\ fetch.failures < max_retries
     /\ fetch.answer = "success")
    => (/\ fetch.requests = fetch.failures + 1
        /\ fetch.result = drops_to_xrp(fetch.drops))

\* C27: within one bot instance commands are processed one at a time: the
\* sync loop awaits each handler before it dispatches the next event, so at
\* most one faucet command execution is in flight.
C27_OneHandlerAtATime ==
    Cardinality({t \in Tasks : co[t].pc \in InFlight}) <= 1

\* A second faucet command is in flight, at its payment, after the first one
\* has returned.
C27_Witness ==
    /\ attempts = 2
    /\ outcome.kind # "None"
    /\ \E t \in Tasks : co[t].pc = "pay"

\* C28: once the claim attempts for a wallet have finished, every payment made
\* to it is recorded: the payments to the wallet number its claim_count (0
\* without a row), and while a payment is younger than the cooldown an
\* eligibility check of the wallet is denied.
C28_EveryPaymentRecorded ==
    \A w \in Addresses :
        (\A t \in Tasks : co[t].pc \in InFlight => co[t].user_wallet # w)
        => /\ Cardinality({p \in payments : p.wallet = w})
                = (IF claims[w] = None THEN 0 ELSE claims[w].claim_count)
           /\ \A p \in payments :
                 (p.wallet = w /\ now - p.at < cooldown_hours)
                 => ~check_claim_eligibility(w, FALSE).ok

C30_OneIssuer ==
    /\ issuers.pc = "denied" => issuers.named = issuers.checked
    /\ issuers.pc = "paid" => issuers.paid = issuers.checked

====
